---- MODULE Spec2Model ----
(***************************************************************************)
(* The ELF section / symbol / relocation code of libriscv's Memory<W>      *)
(* (lib/libriscv/memory_elf.cpp) as a state machine.                       *)
(*                                                                         *)
(* Scaling.  The model is the instantiation Memory<8> on a host whose      *)
(* pointers and size_t have the address width, with that width scaled from *)
(* 64 bits down to WordBits bits.  The binary is a sequence of cells; one  *)
(* cell holds one character of a string table or one field of an ELF       *)
(* structure, so sizeof(T) is the number of fields of T the code uses.     *)
(* Pointers are absolute host addresses; pointer and size_t arithmetic     *)
(* wrap modulo 2^WordBits, which is what every build of the code computes. *)
(* A read outside the binary is undefined behaviour: each operation draws  *)
(* its outcome (a fault, or one of JunkValues for every such cell).        *)
(***************************************************************************)
EXTENDS Integers, Sequences, FiniteSets, TLC

VARIABLES m_binary, elf, m_is_dynamic, memory, phase, links, last, truth

vars == <<m_binary, elf, m_is_dynamic, memory, phase, links, last, truth>>

(***************************************************************************)
(* Bounds of the model                                                     *)
(***************************************************************************)
\* width, in bits, of address_t, size_t and host pointers (64 in Memory<8>)
WordBits == 8
\* host address of m_binary.data()
DataBase == 16
\* writable guest cells at address 0 and at DYLINK_BASE
MemCells == 2
\* most entries of .rela.dyn / .rela.plt in a generated image
MaxRelaDyn == 2
MaxRelaPlt == 1
\* most applications of dynamic_linking in one behaviour
MaxLinks == 2

WordMod == 2 ^ WordBits
Word == 0 .. (WordMod - 1)

(***************************************************************************)
(* Structure layouts: the fields the code uses, one cell each              *)
(***************************************************************************)
SHDR_SIZE == 3
SH_NAME == 0
SH_OFFSET == 1
SH_SIZE == 2
SYM_SIZE == 3
ST_NAME == 0
ST_INFO == 1
ST_VALUE == 2
RELA_SIZE == 2
R_OFFSET == 0
R_INFO == 1
STT_NOTYPE == 0
STT_OBJECT == 1
STT_FUNC == 2
STT_SECTION == 3

\* DYLINK_BASE (0x40000 of a 2^W address space in the source), scaled
DYLINK_BASE == 2 ^ (WordBits - 2)

\* the section names the code asks for, as character codes
SYMTAB == <<46, 115, 121, 109, 116, 97, 98>>
STRTAB == <<46, 115, 116, 114, 116, 97, 98>>
DYNSYM == <<46, 100, 121, 110, 115, 121, 109>>
RELA_DYN == <<46, 114, 101, 108, 97, 46, 100, 121, 110>>
RELA_PLT == <<46, 114, 101, 108, 97, 46, 112, 108, 116>>
SHSTRTAB == <<46, 115, 104, 115, 116, 114, 116, 97, 98>>

(***************************************************************************)
(* Width-W and pointer arithmetic                                          *)
(***************************************************************************)
Wrap(x) == x % WordMod

WrapSub(a, b) == (a + WordMod - b) % WordMod

Min(a, b) == IF a < b THEN a ELSE b

\* F(v), with v evaluated once
Bind(v, F(_)) == CHOOSE y \in {F(x) : x \in {v}} : TRUE

\* m_binary.data()
Data == DataBase

\* m_binary.data() + m_binary.size()
EndPtr(M) == Data + Len(M.bin)

\* the extent [p, p+n) lies in the binary
InBuffer(M, p, n) == Data <= p /\ p + n <= EndPtr(M)

\* the value of the cell at host address p; M.junk outside the binary
Load(M, p) ==
  IF Data <= p /\ p < EndPtr(M) THEN M.bin[p - Data + 1] ELSE M.junk

\* elf_offset<T>(ofs): m_binary.data() + ofs, unchecked
elf_offset(ofs) == Wrap(Data + ofs)

(***************************************************************************)
(* Memory<W>::elf_base_address                                             *)
(***************************************************************************)
elf_base_address_nocheck(dyn, offset) ==
  IF dyn THEN [kind |-> "ok", addr |-> Wrap(DYLINK_BASE + offset)]
  ELSE [kind |-> "ok", addr |-> offset]

elf_base_address(dyn, offset) ==
  IF dyn
  THEN LET vaddr_base == DYLINK_BASE
       IN IF Wrap(vaddr_base + offset) < vaddr_base
          THEN [kind |-> "InvalidProgram", addr |-> 0]
          ELSE [kind |-> "ok", addr |-> Wrap(vaddr_base + offset)]
  ELSE [kind |-> "ok", addr |-> offset]

(***************************************************************************)
(* External collaborators (memory.hpp, elf.hpp): not part of the source    *)
(* excerpt, modelled from the specification's description of them          *)
(***************************************************************************)
\* Elf::RelaSym(r_info): the symbol index sub-field (the low bits hold the
\* relocation type, which the code never uses)
RelaSym(r_info) == r_info \div 4

\* Elf::SymbolType(st_info): st_info & 0xF
SymbolType(st_info) == st_info % 16

\* elf_sym_index(shdr, symidx): &elf_offset<Sym>(shdr->sh_offset)[symidx]
elf_sym_index(M, shdr, symidx) ==
  Wrap(elf_offset(Load(M, Wrap(shdr + SH_OFFSET))) + symidx * SYM_SIZE)

\* the guest addresses the memory subsystem lets the loader write
Mapped == (0 .. (MemCells - 1)) \cup (DYLINK_BASE .. (DYLINK_BASE + MemCells - 1))

\* write<address_t>(addr, value) of the memory subsystem
write(mem, addr, value) ==
  IF addr \in DOMAIN mem
  THEN [kind |-> "ok", mem |-> [mem EXCEPT ![addr] = value]]
  ELSE [kind |-> "MemoryFault", mem |-> mem]

(***************************************************************************)
(* Reads of the binary                                                     *)
(***************************************************************************)
\* some extent of reads lies (partly) outside the binary
OutOfBounds(M, reads) == \E e \in reads : ~InBuffer(M, e[1], e[2])

\* the least element of a non-empty set of numbers
Least(S) == CHOOSE x \in S : \A y \in S : x <= y

\* strnlen(s, maxlen)
RECURSIVE strnlen_from(_, _, _, _)
strnlen_from(M, s, maxlen, n) ==
  IF n >= maxlen \/ Load(M, Wrap(s + n)) = 0 THEN n
  ELSE strnlen_from(M, s, maxlen, n + 1)

strnlen(M, s, maxlen) == strnlen_from(M, s, maxlen, 0)

\* strncmp(s, name.c_str(), n) = 0, from character i on
RECURSIVE strncmp_from(_, _, _, _, _)
strncmp_from(M, s, name, n, i) ==
  IF i >= n THEN TRUE
  ELSE LET c1 == Load(M, Wrap(s + i))
           c2 == IF i < Len(name) THEN name[i + 1] ELSE 0
       IN IF c1 # c2 THEN FALSE
          ELSE IF c1 = 0 THEN TRUE
          ELSE strncmp_from(M, s, name, n, i + 1)

strncmp_eq(M, s, name, n) == strncmp_from(M, s, name, n, 0)

\* the length test of lines 47-48 left out: only the strncmp over len bytes
name_matches_prefix(M, shname, name) ==
  strncmp_eq(M, shname, name, strnlen(M, shname, EndPtr(M) - shname))

\* lines 46-50: the bounded length equals the query's and the bytes agree
name_matches(M, shname, name) ==
  LET len == strnlen(M, shname, EndPtr(M) - shname)
  IN len = Len(name) /\ strncmp_eq(M, shname, name, len)

\* the cells strnlen examines: the name and, unless the bound stops it, its NUL
name_extent(M, shname) ==
  LET maxlen == EndPtr(M) - shname
      len == strnlen(M, shname, maxlen)
  IN <<shname, IF len < maxlen THEN len + 1 ELSE len>>

\* the bound test of line 44 off by one: a pointer at endptr is let through
name_ptr_invalid_late(M, shname) == shname > EndPtr(M)

\* line 44
name_ptr_invalid(M, shname) == shname >= EndPtr(M)

(***************************************************************************)
(* Memory<W>::section_by_name                                              *)
(***************************************************************************)
SbnThrow(msg, reads) ==
  [kind |-> "InvalidProgram", p |-> 0, msg |-> msg, reads |-> reads]

\* the loop of lines 40-53: it leaves at the first header whose name pointer
\* is invalid or whose name matches; reads holds the headers and names it
\* examined up to there
section_scan(M, name, shdr, strings, reads) ==
  LET hdr(i) == Wrap(shdr + i * SHDR_SIZE)
      shname(i) == Wrap(strings + Load(M, Wrap(hdr(i) + SH_NAME)))
      seen(i) == {<<hdr(i), SHDR_SIZE>>}
                 \cup (IF name_ptr_invalid(M, shname(i)) THEN {}
                       ELSE {name_extent(M, shname(i))})
      upto(n) == reads \cup UNION {seen(i) : i \in 0 .. n}
  IN Bind({i \in 0 .. (M.elf.e_shnum - 1) :
             name_ptr_invalid(M, shname(i)) \/ name_matches(M, shname(i), name)},
          LAMBDA exits :
            IF exits = {}
            THEN [kind |-> "null", p |-> 0, msg |-> "",
                  reads |-> upto(M.elf.e_shnum - 1)]
            ELSE Bind(Least(exits), LAMBDA i :
                   IF name_ptr_invalid(M, shname(i))
                   THEN SbnThrow("Invalid ELF string offset", upto(i))
                   ELSE [kind |-> "hdr", p |-> hdr(i), msg |-> "", reads |-> upto(i)]))

section_by_name(M, name) ==
  LET endptr == EndPtr(M)
      shdr == elf_offset(M.elf.e_shoff)
      shstrtab == Wrap(shdr + M.elf.e_shstrndx * SHDR_SIZE)
      strings == elf_offset(Load(M, Wrap(shstrtab + SH_OFFSET)))
  IN IF M.elf.e_shoff > WrapSub(Len(M.bin), SHDR_SIZE)
     THEN SbnThrow("Invalid section header offset", {})
     ELSE IF shstrtab > WrapSub(endptr, SHDR_SIZE)
     THEN SbnThrow("Invalid section header offset", {})
     ELSE IF Wrap(shdr + M.elf.e_shnum * SHDR_SIZE) > endptr
     THEN SbnThrow("Invalid ELF string offset", {<<shstrtab, SHDR_SIZE>>})
     ELSE section_scan(M, name, shdr, strings, {<<shstrtab, SHDR_SIZE>>})

(***************************************************************************)
(* Memory<W>::resolve_symbol                                               *)
(***************************************************************************)
\* the characters of the C string at s, up to its NUL; a string that leaves
\* the binary ends there, after one junk character when junk is not NUL
RECURSIVE c_str_from(_, _, _)
c_str_from(M, s, acc) ==
  LET p == Wrap(s + Len(acc))
  IN IF ~InBuffer(M, p, 1)
     THEN (IF M.junk = 0 THEN acc ELSE Append(acc, M.junk))
     ELSE IF Load(M, p) = 0 THEN acc
     ELSE c_str_from(M, s, Append(acc, Load(M, p)))

c_str(M, s) == c_str_from(M, s, <<>>)

IsPrefix(a, b) == Len(a) <= Len(b) /\ SubSeq(b, 1, Len(a)) = a

\* a comparison over the query's length only
sym_name_equal_prefix(M, symname, name) == IsPrefix(name, c_str(M, symname))

\* line 75: name.compare(symname) == 0
sym_name_equal(M, symname, name) == c_str(M, symname) = name

\* the cells name.compare(symname) examines: the string and its terminator
sym_name_extent(M, symname) == <<symname, Len(c_str(M, symname)) + 1>>

\* the loop of lines 72-78: it leaves at the first symbol whose name equals
\* the query; own holds the symbols and names it examined, reads these and
\* what the section lookups read
symbol_scan(M, name, symtab, symtab_ents, strtab, reads) ==
  LET sym(i) == Wrap(symtab + i * SYM_SIZE)
      symname(i) == Wrap(strtab + Load(M, Wrap(sym(i) + ST_NAME)))
      upto(n) == UNION {{<<sym(i), SYM_SIZE>>, sym_name_extent(M, symname(i))} :
                          i \in 0 .. n}
  IN Bind({i \in 0 .. (symtab_ents - 1) : sym_name_equal(M, symname(i), name)},
          LAMBDA exits :
            IF exits = {}
            THEN Bind(upto(symtab_ents - 1), LAMBDA own :
                   [kind |-> "null", p |-> 0, msg |-> "", reads |-> reads \cup own,
                    own |-> own])
            ELSE Bind(upto(Least(exits)), LAMBDA own :
                   [kind |-> "sym", p |-> sym(Least(exits)), msg |-> "",
                    reads |-> reads \cup own, own |-> own]))

\* lines 66-79, with both section headers found
resolve_in(M, name, sym_hdr, str_hdr) ==
  LET rd == sym_hdr.reads \cup str_hdr.reads
  IN IF Load(M, Wrap(sym_hdr.p + SH_SIZE)) = 0
     THEN [kind |-> "null", p |-> 0, msg |-> "", reads |-> rd, own |-> {}]
     ELSE LET symtab == elf_sym_index(M, sym_hdr.p, 0)
              symtab_ents == Load(M, Wrap(sym_hdr.p + SH_SIZE)) \div SYM_SIZE
              strtab == elf_offset(Load(M, Wrap(str_hdr.p + SH_OFFSET)))
          IN symbol_scan(M, name, symtab, symtab_ents, strtab, rd)

\* a section lookup that ended the operation: no symbol was read
NoSymbol(hdr, reads) ==
  [kind |-> hdr.kind, p |-> 0, msg |-> hdr.msg, reads |-> reads, own |-> {}]

resolve_symbol(M, name) ==
  IF Len(M.bin) = 0 THEN [kind |-> "null", p |-> 0, msg |-> "", reads |-> {}, own |-> {}]
  ELSE Bind(section_by_name(M, SYMTAB), LAMBDA sym_hdr :
         IF sym_hdr.kind # "hdr" THEN NoSymbol(sym_hdr, sym_hdr.reads)
         ELSE Bind(section_by_name(M, STRTAB), LAMBDA str_hdr :
                IF str_hdr.kind # "hdr"
                THEN NoSymbol(str_hdr, sym_hdr.reads \cup str_hdr.reads)
                ELSE resolve_in(M, name, sym_hdr, str_hdr)))

(***************************************************************************)
(* Memory<W>::relocate_section and Memory<W>::dynamic_linking              *)
(***************************************************************************)
\* the symbol type test left out: every entry is patched
should_patch_any(type) == TRUE

\* line 119: type == Elf::STT_FUNC || type == Elf::STT_OBJECT
should_patch(type) == type = STT_FUNC \/ type = STT_OBJECT

\* a relocation that adds the symbol's value to the target's content
apply_relocation_additive(dyn, mem, r_offset, st_value) ==
  LET a == elf_base_address(dyn, r_offset)
  IN IF a.kind # "ok" THEN [kind |-> a.kind, mem |-> mem, addr |-> 0]
     ELSE IF a.addr \notin DOMAIN mem THEN [kind |-> "MemoryFault", mem |-> mem, addr |-> a.addr]
     ELSE [kind |-> "ok", addr |-> a.addr,
           mem |-> write(mem, a.addr, Wrap(mem[a.addr] + st_value)).mem]

\* line 127: this->write<address_t>(elf_base_address(r_offset), sym->st_value)
apply_relocation(dyn, mem, r_offset, st_value) ==
  LET a == elf_base_address(dyn, r_offset)
  IN IF a.kind # "ok" THEN [kind |-> a.kind, mem |-> mem, addr |-> 0]
     ELSE LET w == write(mem, a.addr, st_value)
          IN [kind |-> w.kind, mem |-> w.mem, addr |-> a.addr]

\* the loop of lines 109-129; acc holds the memory, the writes made, the
\* extents read so far and, in own, those of them that are relocation
\* entries and symbols
RECURSIVE relocate_scan(_, _, _, _, _, _)
relocate_scan(M, rela_addr, rela_ents, dyn_hdr, i, acc) ==
  IF i >= rela_ents THEN [acc EXCEPT !.kind = "ok", !.done = i]
  ELSE LET ent == Wrap(rela_addr + i * RELA_SIZE)
           symidx == RelaSym(Load(M, Wrap(ent + R_INFO)))
           sym == elf_sym_index(M, dyn_hdr, symidx)
           type == SymbolType(Load(M, Wrap(sym + ST_INFO)))
           st_value == Load(M, Wrap(sym + ST_VALUE))
           here == {<<ent, RELA_SIZE>>, <<sym, SYM_SIZE>>}
           rd == acc.reads \cup here
           own == acc.own \cup here
       IN IF M.fault /\ OutOfBounds(M, here)
          THEN [acc EXCEPT !.kind = "Segfault", !.done = i, !.reads = rd, !.own = own]
          ELSE IF should_patch(type)
          THEN Bind(apply_relocation(M.dyn, acc.mem, Load(M, Wrap(ent + R_OFFSET)), st_value),
                 LAMBDA r :
                   IF r.kind # "ok"
                   THEN [acc EXCEPT !.kind = r.kind, !.done = i, !.reads = rd, !.own = own]
                   ELSE Bind([acc EXCEPT !.mem = r.mem, !.reads = rd, !.own = own,
                                         !.writes = Append(@, <<r.addr, st_value>>)],
                          LAMBDA next :
                            relocate_scan(M, rela_addr, rela_ents, dyn_hdr, i + 1, next)))
          ELSE Bind([acc EXCEPT !.reads = rd, !.own = own], LAMBDA next :
                 relocate_scan(M, rela_addr, rela_ents, dyn_hdr, i + 1, next))

\* lines 106-129, with both section headers found
relocate_in(M, none, rela, dyn_hdr) ==
  LET rela_ents == Load(M, Wrap(rela.p + SH_SIZE)) \div RELA_SIZE
      rela_addr == elf_offset(Load(M, Wrap(rela.p + SH_OFFSET)))
  IN relocate_scan(M, rela_addr, rela_ents, dyn_hdr.p, 0,
                   [none EXCEPT !.reads = rela.reads \cup dyn_hdr.reads, !.found = TRUE])

\* the result of one pass: kind "ok" or the error that ended it, the memory
\* it left, its writes in order, the extents read, the entries completed,
\* and whether both sections were found
relocate_section(M, mem, section_name, sym_section) ==
  LET none == [kind |-> "ok", mem |-> mem, writes |-> <<>>, reads |-> {}, own |-> {},
               done |-> 0, found |-> FALSE]
  IN Bind(section_by_name(M, section_name), LAMBDA rela :
       IF M.fault /\ OutOfBounds(M, rela.reads)
       THEN [none EXCEPT !.kind = "Segfault", !.reads = rela.reads]
       ELSE IF rela.kind = "InvalidProgram"
       THEN [none EXCEPT !.kind = "InvalidProgram", !.reads = rela.reads]
       ELSE IF rela.kind = "null" THEN [none EXCEPT !.reads = rela.reads]
       ELSE Bind(section_by_name(M, sym_section), LAMBDA dyn_hdr :
              IF M.fault /\ OutOfBounds(M, dyn_hdr.reads)
              THEN [none EXCEPT !.kind = "Segfault", !.reads = rela.reads \cup dyn_hdr.reads]
              ELSE IF dyn_hdr.kind = "InvalidProgram"
              THEN [none EXCEPT !.kind = "InvalidProgram",
                                !.reads = rela.reads \cup dyn_hdr.reads]
              ELSE IF dyn_hdr.kind = "null"
              THEN [none EXCEPT !.reads = rela.reads \cup dyn_hdr.reads]
              ELSE relocate_in(M, none, rela, dyn_hdr)))

\* a pass that was not run
NotRun(mem) ==
  [kind |-> "notrun", mem |-> mem, writes |-> <<>>, reads |-> {}, own |-> {},
   done |-> 0, found |-> FALSE]

\* both passes run whatever the first one's outcome
dynamic_linking_continue(M, mem) ==
  Bind(relocate_section(M, mem, RELA_DYN, DYNSYM), LAMBDA dyn :
    Bind(relocate_section(M, dyn.mem, RELA_PLT, DYNSYM), LAMBDA plt :
      [kind |-> plt.kind, mem |-> plt.mem, dyn |-> dyn, plt |-> plt,
       writes |-> dyn.writes \o plt.writes]))

\* .rela.plt is relocated before .rela.dyn
dynamic_linking_plt_first(M, mem) ==
  Bind(relocate_section(M, mem, RELA_PLT, DYNSYM), LAMBDA plt :
    IF plt.kind # "ok"
    THEN [kind |-> plt.kind, mem |-> plt.mem, dyn |-> NotRun(plt.mem), plt |-> plt,
          writes |-> plt.writes]
    ELSE Bind(relocate_section(M, plt.mem, RELA_DYN, DYNSYM), LAMBDA dyn :
           [kind |-> dyn.kind, mem |-> dyn.mem, dyn |-> dyn, plt |-> plt,
            writes |-> plt.writes \o dyn.writes]))

\* lines 133-138; an exception of the first pass leaves the function, so the
\* second pass runs only after the first returned.  writes: every write made,
\* in the order made
dynamic_linking(M, mem) ==
  Bind(relocate_section(M, mem, RELA_DYN, DYNSYM), LAMBDA dyn :
    IF dyn.kind # "ok"
    THEN [kind |-> dyn.kind, mem |-> dyn.mem, dyn |-> dyn, plt |-> NotRun(dyn.mem),
          writes |-> dyn.writes]
    ELSE Bind(relocate_section(M, dyn.mem, RELA_PLT, DYNSYM), LAMBDA plt :
           [kind |-> plt.kind, mem |-> plt.mem, dyn |-> dyn, plt |-> plt,
            writes |-> dyn.writes \o plt.writes]))

(***************************************************************************)
(* Generated binaries.  A plan lists the sections of an ELF file between   *)
(* the null section (index 0) and .shstrtab (the last index), the symbols  *)
(* and the relocation entries; Image(plan) lays the file out as a linker   *)
(* does.  The plan is kept in the variable truth: it is what the file      *)
(* means, known without parsing it.                                        *)
(***************************************************************************)
RECURSIVE Flatten(_)
Flatten(ss) == IF ss = <<>> THEN <<>> ELSE Head(ss) \o Flatten(Tail(ss))

RECURSIVE SumLen(_, _)
SumLen(ss, k) == IF k = 0 THEN 0 ELSE SumLen(ss, k - 1) + Len(ss[k])

\* a string table of names: a NUL, then each name and its NUL
StrTab(names) == <<0>> \o Flatten([i \in 1 .. Len(names) |-> names[i] \o <<0>>])

\* the offset of names[k] in StrTab(names)
StrOff(names, k) == 1 + SumLen(names, k - 1) + (k - 1)

SymNames(plan) == [i \in 1 .. Len(plan.syms) |-> plan.syms[i].name]

RelaInfo(sym, rtype) == sym * 4 + rtype

SecName(kind) ==
  CASE kind = "symtab" -> SYMTAB
    [] kind = "symtab_empty" -> SYMTAB
    [] kind = "strtab" -> STRTAB
    [] kind = "dynsym" -> DYNSYM
    [] kind = "rela_dyn" -> RELA_DYN
    [] kind = "rela_plt" -> RELA_PLT

RelaBody(entries) ==
  Flatten([i \in 1 .. Len(entries) |-> <<entries[i].off, RelaInfo(entries[i].sym, 2)>>])

SecBody(plan, kind) ==
  CASE kind = "symtab" ->
         Flatten([i \in 1 .. Len(plan.syms) |->
                    <<StrOff(SymNames(plan), i), plan.syms[i].info, plan.syms[i].value>>])
    [] kind = "symtab_empty" -> <<>>
    [] kind = "strtab" -> StrTab(SymNames(plan))
    [] kind = "dynsym" ->
         Flatten([i \in 1 .. Len(plan.dynsyms) |->
                    <<0, plan.dynsyms[i].info, plan.dynsyms[i].value>>])
    [] kind = "rela_dyn" -> RelaBody(plan.relaDyn)
    [] kind = "rela_plt" -> RelaBody(plan.relaPlt)

\* the names of all section headers, in index order
SectionNames(plan) ==
  <<<<>>>> \o [i \in 1 .. Len(plan.secs) |-> SecName(plan.secs[i])] \o <<SHSTRTAB>>

Layout(plan) ==
  LET n == Len(plan.secs)
      names == [i \in 1 .. n |-> SecName(plan.secs[i])] \o <<SHSTRTAB>>
      bodies == [i \in 1 .. n |-> SecBody(plan, plan.secs[i])]
      shstr == StrTab(names)
      nbody == SumLen(bodies, n)
      nhdrs == (n + 2) * SHDR_SIZE
      shoff == IF plan.strLast THEN nbody ELSE nbody + Len(shstr)
      stroff == IF plan.strLast THEN nbody + nhdrs ELSE nbody
      hdrs == <<0, 0, 0>>
              \o Flatten([i \in 1 .. n |->
                   <<StrOff(names, i), SumLen(bodies, i - 1), Len(bodies[i])>>])
              \o <<StrOff(names, n + 1), stroff, Len(shstr)>>
      file == IF plan.strLast THEN Flatten(bodies) \o hdrs \o shstr
              ELSE Flatten(bodies) \o shstr \o hdrs
  IN [bin |-> file,
      elf |-> [e_shoff |-> shoff, e_shnum |-> n + 2, e_shstrndx |-> n + 1]]

\* the file as laid out, cut short by plan.cut cells, then with the one cell
\* or header field plan.corrupt names overwritten
Image(plan) ==
  LET lay == Layout(plan)
      c == plan.corrupt
      kept == SubSeq(lay.bin, 1, Len(lay.bin) - plan.cut)
  IN [bin |-> IF c.where = "cell" THEN [kept EXCEPT ![c.pos] = c.val] ELSE kept,
      elf |-> [e_shoff |-> IF c.where = "e_shoff" THEN c.val ELSE lay.elf.e_shoff,
               e_shnum |-> IF c.where = "e_shnum" THEN c.val ELSE lay.elf.e_shnum,
               e_shstrndx |-> IF c.where = "e_shstrndx" THEN c.val
                              ELSE lay.elf.e_shstrndx]]

NoCorrupt == [where |-> "none", pos |-> 0, val |-> 0]

WellFormed(plan) == plan.cut = 0 /\ plan.corrupt.where = "none"

\* symbol names "ab", "a", "a" after the null symbol: a prefix pair and a
\* duplicate
Syms ==
  <<[name |-> <<>>, info |-> 0, value |-> 0],
    [name |-> <<97, 98>>, info |-> 16 + STT_FUNC, value |-> 20],
    [name |-> <<97>>, info |-> 16 + STT_OBJECT, value |-> 21],
    [name |-> <<97>>, info |-> 16 + STT_FUNC, value |-> 22]>>

\* .dynsym: the null symbol, an OBJECT, a FUNC, a SECTION
DynSyms ==
  <<[info |-> STT_NOTYPE, value |-> 0],
    [info |-> 16 + STT_OBJECT, value |-> 170],
    [info |-> 16 + STT_FUNC, value |-> 187],
    [info |-> STT_SECTION, value |-> 99]>>

BasePlan ==
  [secs |-> <<>>, syms |-> Syms, dynsyms |-> DynSyms, relaDyn |-> <<>>,
   relaPlt |-> <<>>, strLast |-> FALSE, cut |-> 0, corrupt |-> NoCorrupt]

(***************************************************************************)
(* The families of binaries the behaviours start from                      *)
(***************************************************************************)
SeqUpTo(S, n) == UNION {[1 .. k -> S] : k \in 0 .. n}

\* section lists: complete, lacking .symtab, lacking .strtab, an empty
\* .symtab, an empty .symtab named before a full one, and none at all
SectVariants ==
  {<<"symtab", "strtab", "dynsym", "rela_dyn", "rela_plt">>,
   <<"strtab", "dynsym">>,
   <<"symtab", "dynsym">>,
   <<"symtab_empty", "strtab">>,
   <<"symtab_empty", "strtab", "symtab">>,
   <<"symtab", "strtab">>,
   <<>>}

SectBase ==
  [BasePlan EXCEPT !.relaDyn = <<[off |-> 0, sym |-> 1]>>,
                   !.relaPlt = <<[off |-> 1, sym |-> 2]>>]

WellFormedPlans ==
  {[SectBase EXCEPT !.secs = v, !.strLast = b] : v \in SectVariants, b \in BOOLEAN}

\* the plan the damaged binaries are made from
DamageBase == [SectBase EXCEPT !.secs = <<"symtab", "strtab">>]

\* files cut short: by one and two cells, and by the whole last name
CutPlans ==
  {[DamageBase EXCEPT !.strLast = b, !.cut = c] :
     b \in BOOLEAN, c \in {1, 2, Len(SHSTRTAB) + 1, Len(SHSTRTAB) + 2}}

\* values of a field of the address width: inside, at and past the end of
\* the file, and the largest ones, whose sum with a pointer wraps
WideValues(L) ==
  {0, L - 1, L, WordMod - 1, WordMod - DataBase - 3 * SHDR_SIZE}

\* values of a narrower field (sh_name, st_name, e_shnum, e_shstrndx)
NarrowValues(L) == {0, 1, L - 1, L, L + 1}

\* one cell of the section header table, or the st_name of symbol 1, damaged
CellPlans ==
  LET lay == Layout(DamageBase)
      L == Len(lay.bin)
      nh == lay.elf.e_shnum * SHDR_SIZE
  IN {[DamageBase EXCEPT !.corrupt = [where |-> "cell", pos |-> lay.elf.e_shoff + k, val |-> v]] :
        k \in 1 .. nh, v \in WideValues(L)}
     \cup
     {[DamageBase EXCEPT !.corrupt = [where |-> "cell", pos |-> SYM_SIZE + ST_NAME + 1, val |-> v]] :
        v \in NarrowValues(L)}

\* one field of the ELF header damaged
HeaderPlans ==
  LET L == Len(Layout(DamageBase).bin)
  IN {[DamageBase EXCEPT !.corrupt = [where |-> "e_shoff", pos |-> 0, val |-> v]] :
        v \in WideValues(L)}
     \cup
     {[DamageBase EXCEPT !.corrupt = [where |-> w, pos |-> 0, val |-> v]] :
        w \in {"e_shnum", "e_shstrndx"}, v \in NarrowValues(L)}

\* files shorter than one section header, the empty file among them
ShortPlans ==
  LET L == Len(Layout(DamageBase).bin)
  IN {[DamageBase EXCEPT !.cut = L - n,
                         !.corrupt = [where |-> "e_shoff", pos |-> 0, val |-> v]] :
        n \in 0 .. (SHDR_SIZE - 1), v \in WideValues(L)}

SectPlans == WellFormedPlans \cup CutPlans \cup CellPlans \cup HeaderPlans \cup ShortPlans

\* r_offset + DYLINK_BASE wraps to 0
OverflowOffset == WordMod - DYLINK_BASE

\* entries against the NOTYPE, OBJECT and FUNC symbols at one target, and a
\* FUNC entry whose target overflows
RelaEntries ==
  {[off |-> 0, sym |-> 0], [off |-> 0, sym |-> 1], [off |-> 0, sym |-> 2],
   [off |-> OverflowOffset, sym |-> 2]}

LinkBase ==
  [BasePlan EXCEPT !.secs = <<"rela_dyn", "dynsym", "rela_plt">>,
                   !.relaDyn = <<[off |-> 0, sym |-> 1]>>,
                   !.relaPlt = <<[off |-> 0, sym |-> 2]>>]

\* every choice of relocation entries; two targets; an overflowing entry
\* that is not patched; sections missing; the sh_name of the .rela.plt
\* header pointing at the end of the file; a symbol index far beyond .dynsym
LinkPlans ==
  {[LinkBase EXCEPT !.relaDyn = d, !.relaPlt = q] :
     d \in SeqUpTo(RelaEntries, MaxRelaDyn), q \in SeqUpTo(RelaEntries, MaxRelaPlt)}
  \cup
  {[LinkBase EXCEPT !.relaDyn = <<[off |-> 1, sym |-> 1], [off |-> 0, sym |-> 3]>>,
                    !.relaPlt = <<[off |-> 1, sym |-> 0]>>],
   [LinkBase EXCEPT !.relaDyn = <<[off |-> OverflowOffset, sym |-> 0], [off |-> 1, sym |-> 2]>>]}
  \cup
  {[LinkBase EXCEPT !.secs = v] :
     v \in {<<"rela_dyn", "rela_plt">>, <<"dynsym", "rela_plt">>, <<"rela_dyn", "dynsym">>}}
  \cup
  {[LinkBase EXCEPT !.corrupt =
      [where |-> "cell", pos |-> Layout(LinkBase).elf.e_shoff + 3 * SHDR_SIZE + SH_NAME + 1,
       val |-> Len(Layout(LinkBase).bin)]],
   [LinkBase EXCEPT !.relaDyn = <<[off |-> 0, sym |-> 1], [off |-> 1, sym |-> 60]>>]}

(***************************************************************************)
(* The state machine                                                       *)
(***************************************************************************)
JunkValues == {0, 1}

\* what a read outside the binary does in this operation
UBOutcomes ==
  {[fault |-> TRUE, junk |-> 0]} \cup {[fault |-> FALSE, junk |-> j] : j \in JunkValues}

Ctx(ub) ==
  [bin |-> m_binary, elf |-> elf, dyn |-> m_is_dynamic, junk |-> ub.junk,
   fault |-> ub.fault]

\* a read outside the binary that faults ends the operation
Faulted(M, r) ==
  IF M.fault /\ OutOfBounds(M, r.reads) THEN [r EXCEPT !.kind = "Segfault"] ELSE r

SectionQueries ==
  {SYMTAB, SubSeq(SYMTAB, 1, Len(SYMTAB) - 1), SYMTAB \o <<120>>, <<>>,
   RELA_PLT, SubSeq(RELA_PLT, 1, 5), SHSTRTAB}

SymbolQueries == {<<97>>, <<97, 98>>, <<98>>, <<97, 98, 99>>, <<>>}

InitWith(plans, dyns) ==
  /\ truth \in plans
  /\ \E img \in {Image(truth)} : m_binary = img.bin /\ elf = img.elf
  /\ m_is_dynamic \in dyns
  /\ memory = [a \in Mapped |-> 7]
  /\ phase = "loading"
  /\ links = 0
  /\ last = [op |-> "none", name |-> <<>>, offset |-> 0, res |-> [kind |-> "none"]]

ElfBaseAddress(offset) ==
  /\ last' = [op |-> "elf_base_address", name |-> <<>>, offset |-> offset,
              res |-> elf_base_address(m_is_dynamic, offset)]
  /\ UNCHANGED <<m_binary, elf, m_is_dynamic, memory, phase, links, truth>>

SectionByName(name, ub) ==
  /\ \E r \in {section_by_name(Ctx(ub), name)} :
       last' = [op |-> "section_by_name", name |-> name, offset |-> 0,
                res |-> Faulted(Ctx(ub), r)]
  /\ UNCHANGED <<m_binary, elf, m_is_dynamic, memory, phase, links, truth>>

ResolveSymbol(name, ub) ==
  /\ \E r \in {resolve_symbol(Ctx(ub), name)} :
       last' = [op |-> "resolve_symbol", name |-> name, offset |-> 0,
                res |-> Faulted(Ctx(ub), r)]
  /\ UNCHANGED <<m_binary, elf, m_is_dynamic, memory, phase, links, truth>>

\* dynamic_linking during the load: a pass that throws aborts the load, and
\* an aborted load is not resumed
DynamicLinking(ub) ==
  /\ phase # "aborted"
  /\ links < MaxLinks
  /\ \E r \in {dynamic_linking(Ctx(ub), memory)} :
        /\ memory' = r.mem
        /\ phase' = IF r.kind = "ok" THEN "runnable" ELSE "aborted"
        /\ last' = [op |-> "dynamic_linking", name |-> <<>>, offset |-> 0,
                    res |-> [r EXCEPT !.mem = memory]]
  /\ links' = links + 1
  /\ UNCHANGED <<m_binary, elf, m_is_dynamic, truth>>

\* elf_base_address over every offset of the address width
InitAddr == InitWith({BasePlan}, BOOLEAN)
NextAddr == \E offset \in Word : ElfBaseAddress(offset)
SpecAddr == InitAddr /\ [][NextAddr]_vars

\* section and symbol lookup over well-formed and damaged binaries
InitSect == InitWith(SectPlans, {FALSE})
NextSect ==
  \/ \E name \in SectionQueries, ub \in UBOutcomes : SectionByName(name, ub)
  \/ \E name \in SymbolQueries, ub \in UBOutcomes : ResolveSymbol(name, ub)
SpecSect == InitSect /\ [][NextSect]_vars

\* dynamic linking over every choice of relocation entries
InitLink == InitWith(LinkPlans, BOOLEAN)
NextLink == \E ub \in UBOutcomes : DynamicLinking(ub)
SpecLink == InitLink /\ [][NextLink]_vars

Init == InitAddr \/ InitSect \/ InitLink
Next == NextAddr \/ NextSect \/ NextLink
Spec == Init /\ [][Next]_vars

(***************************************************************************)
(* What a generated binary means, read off its plan                        *)
(***************************************************************************)
\* the indices (from 1) of the elements of a sequence equal to x
IndicesOf(seq, x) == {i \in 1 .. Len(seq) : seq[i] = x}

\* the host address of section header i (from 0) of the file as laid out
HeaderAt(i) == Data + Layout(truth).elf.e_shoff + i * SHDR_SIZE

\* every extent the last operation read lies in the binary
ReadsInBuffer(reads) ==
  \A e \in reads : Data <= e[1] /\ e[1] + e[2] <= Data + Len(m_binary)

(***************************************************************************)
(* Claims                                                                  *)
(***************************************************************************)

\* C1: section_by_name either fails with InvalidProgram or reads only cells
\* of the binary: the e_shstrndx header, every header it visits and every
\* section-name byte lie inside [data, data + size).
C1_SectionReadsInBounds ==
  last.op = "section_by_name" =>
    \/ last.res.kind = "InvalidProgram"
    \/ ReadsInBuffer(last.res.reads)

\* C2: elf_base_address returns the offset unchanged for a static image;
\* for a dynamic image it returns DYLINK_BASE + offset when that sum fits the
\* address width, fails with InvalidProgram exactly when the sum wraps below
\* DYLINK_BASE, and never returns a wrapped address.
C2_BaseAddress ==
  last.op = "elf_base_address" =>
    LET sum == DYLINK_BASE + last.offset
    IN IF ~m_is_dynamic
       THEN last.res.kind = "ok" /\ last.res.addr = last.offset
       ELSE /\ sum < WordMod => (last.res.kind = "ok" /\ last.res.addr = sum)
            /\ last.res.kind = "InvalidProgram" <=> (sum % WordMod) < DYLINK_BASE
            /\ last.res.kind = "ok" => last.res.addr = sum
            /\ last.res.kind \in {"ok", "InvalidProgram"}

\* C2 witness: a dynamic image, and the least offset whose sum wraps
C2_Witness ==
  /\ m_is_dynamic
  /\ last.op = "elf_base_address"
  /\ last.offset = WordMod - DYLINK_BASE
  /\ last.res.kind = "InvalidProgram"

\* C3: on a well-formed binary section_by_name returns the first header, in
\* index order, whose name is exactly the query, and "not found" when no
\* header has that name (a proper prefix or an extension of a name is not
\* a match).
C3_ExactFirstMatch ==
  (last.op = "section_by_name" /\ WellFormed(truth)) =>
    LET hits == IndicesOf(SectionNames(truth), last.name)
    IN IF hits = {}
       THEN last.res.kind = "null"
       ELSE last.res.kind = "hdr" /\ last.res.p = HeaderAt(Least(hits) - 1)

\* C3 witness: two headers carry the queried name and a header was returned
C3_Witness ==
  /\ last.op = "section_by_name"
  /\ WellFormed(truth)
  /\ Cardinality(IndicesOf(SectionNames(truth), last.name)) > 1
  /\ last.res.kind = "hdr"

\* the section names of a file whose strings come last and which was cut
\* short by cut cells, 0 <= cut <= Len(SHSTRTAB): the last name keeps its
\* first Len(SHSTRTAB) + 1 - cut cells, at most Len(SHSTRTAB) of them
CutNames ==
  LET names == SectionNames(truth)
      n == Len(names)
  IN [names EXCEPT ![n] = SubSeq(SHSTRTAB, 1, Min(Len(SHSTRTAB), Len(SHSTRTAB) + 1 - truth.cut))]

\* the section-name strings come last in the file and only its end is cut
StringsCut ==
  /\ truth.strLast
  /\ truth.corrupt.where = "none"
  /\ truth.cut <= Len(SHSTRTAB) + 1

\* the scan reaches the last header: no earlier header has the queried name
ReachesLastName ==
  \A i \in IndicesOf(SectionNames(truth), last.name) : i = Len(SectionNames(truth))

\* C7 as stated: a name whose NUL is the last cell of the binary is accepted,
\* and a name that starts inside the binary and has no NUL before its end
\* makes section_by_name fail with InvalidProgram.
C7_UnterminatedNameFails ==
  (last.op = "section_by_name" /\ StringsCut /\ ReachesLastName) =>
    /\ (truth.cut = 0 /\ last.name = SHSTRTAB) => last.res.kind = "hdr"
    /\ truth.cut \in 1 .. Len(SHSTRTAB) => last.res.kind = "InvalidProgram"

\* C7 as the code has it: a name whose NUL is the last cell of the binary is
\* accepted; a name that starts inside the binary and has no NUL before its
\* end is a name of length end - pointer, compared like any other and read
\* only up to the end; a name pointer at the end fails with InvalidProgram.
C7_UnterminatedNameBounded ==
  (last.op = "section_by_name" /\ StringsCut /\ ReachesLastName) =>
    IF truth.cut = Len(SHSTRTAB) + 1
    THEN last.res.kind = "InvalidProgram"
    ELSE /\ ReadsInBuffer(last.res.reads)
         /\ IF last.name = CutNames[Len(CutNames)]
            THEN last.res.kind = "hdr" /\ last.res.p = HeaderAt(Len(CutNames) - 1)
            ELSE last.res.kind = "null"

\* C7 witness: the last name lost its NUL and a query of its length found it
C7_Witness ==
  /\ last.op = "section_by_name"
  /\ StringsCut
  /\ truth.cut = 1
  /\ last.name = SHSTRTAB
  /\ last.res.kind = "hdr"

\* the first section named name, as an index (from 1) into truth.secs; 0 if
\* there is none
FirstSection(name) ==
  LET hits == {i \in 1 .. Len(truth.secs) : SecName(truth.secs[i]) = name}
  IN IF hits = {} THEN 0 ELSE Least(hits)

\* C8: resolve_symbol returns "not found", without an error, on an empty
\* binary, on a well-formed one without .symtab, without .strtab or with a
\* .symtab of size 0; otherwise it returns the first symbol, in file order,
\* whose name is exactly the query, or "not found" when there is none.
C8_ResolveSymbol ==
  last.op = "resolve_symbol" =>
    /\ Len(m_binary) = 0 => last.res.kind = "null"
    /\ WellFormed(truth) =>
         LET hits == IndicesOf(SymNames(truth), last.name)
         IN IF \/ FirstSection(SYMTAB) = 0
               \/ FirstSection(STRTAB) = 0
               \/ truth.secs[FirstSection(SYMTAB)] = "symtab_empty"
               \/ hits = {}
            THEN last.res.kind = "null"
            ELSE /\ last.res.kind = "sym"
                 /\ InBuffer(Ctx([fault |-> FALSE, junk |-> 0]), last.res.p, SYM_SIZE)
                 /\ m_binary[last.res.p - Data + ST_VALUE + 1] = truth.syms[Least(hits)].value

\* C8 witness: two symbols carry the queried name and a symbol was returned
C8_Witness ==
  /\ last.op = "resolve_symbol"
  /\ WellFormed(truth)
  /\ Cardinality(IndicesOf(SymNames(truth), last.name)) > 1
  /\ last.res.kind = "sym"

\* C9: resolve_symbol and relocate_section either fail with an error or read
\* only cells of the binary: every Symbol, every RelocationEntry and every
\* symbol-name byte they read lies inside [data, data + size).
C9_SymbolReadsInBounds ==
  /\ last.op = "resolve_symbol" =>
       \/ last.res.kind = "InvalidProgram"
       \/ ReadsInBuffer(last.res.own)
  /\ last.op = "dynamic_linking" =>
       \/ last.res.kind \in {"InvalidProgram", "MemoryFault"}
       \/ ReadsInBuffer(last.res.dyn.own \cup last.res.plt.own)

(***************************************************************************)
(* What the relocation entries of a plan mean                              *)
(***************************************************************************)
\* the plan is intact and every entry names a symbol of .dynsym
LinkWellFormed ==
  /\ WellFormed(truth)
  /\ \A e \in {truth.relaDyn[i] : i \in 1 .. Len(truth.relaDyn)}
            \cup {truth.relaPlt[i] : i \in 1 .. Len(truth.relaPlt)} :
       e.sym < Len(truth.dynsyms)

HasSection(kind) == \E i \in 1 .. Len(truth.secs) : truth.secs[i] = kind

\* the entries of a pass; none when its section or .dynsym is absent
EntriesOf(kind) ==
  IF HasSection(kind) /\ HasSection("dynsym")
  THEN (IF kind = "rela_dyn" THEN truth.relaDyn ELSE truth.relaPlt)
  ELSE <<>>

EntryPatched(e) ==
  truth.dynsyms[e.sym + 1].info % 16 \in {STT_FUNC, STT_OBJECT}

\* the target of an entry, not reduced to the address width
EntryTarget(e) == IF m_is_dynamic THEN DYLINK_BASE + e.off ELSE e.off

\* what patching the entry ends in
EntryOutcome(e) ==
  IF ~EntryPatched(e) THEN "ok"
  ELSE IF EntryTarget(e) >= WordMod THEN "InvalidProgram"
  ELSE IF EntryTarget(e) \notin Mapped THEN "MemoryFault"
  ELSE "ok"

\* the number of entries of es before the first one that fails
Completed(es) ==
  LET bad == {i \in 1 .. Len(es) : EntryOutcome(es[i]) # "ok"}
  IN IF bad = {} THEN Len(es) ELSE Least(bad) - 1

PassOutcome(es) ==
  IF Completed(es) = Len(es) THEN "ok" ELSE EntryOutcome(es[Completed(es) + 1])

\* one write per FUNC or OBJECT entry among the first n of es, in file order
WritesOf(es, n) ==
  LET kept == SelectSeq(SubSeq(es, 1, n), EntryPatched)
  IN [i \in 1 .. Len(kept) |->
        <<EntryTarget(kept[i]), truth.dynsyms[kept[i].sym + 1].value>>]

\* the content of address a after the writes ws, made in order, over prev
After(prev, ws, a) ==
  LET hits == {i \in 1 .. Len(ws) : ws[i][1] = a}
  IN IF hits = {} THEN prev[a] ELSE ws[CHOOSE i \in hits : \A j \in hits : j <= i][2]

\* one pass did what its entries say, starting from the memory prev
PassAsPlanned(pass, kind, prev) ==
  LET es == EntriesOf(kind)
  IN /\ pass.kind = PassOutcome(es)
     /\ pass.writes = WritesOf(es, Completed(es))
     /\ \A a \in Mapped : pass.mem[a] = After(prev, pass.writes, a)

\* C4: with both sections present relocate_section makes, in file order,
\* exactly one write of st_value at elf_base_address(r_offset) per entry
\* whose symbol is FUNC or OBJECT and none for any other entry, up to the
\* end of the section or the first entry whose address or write fails; a
\* target no such entry addresses keeps its content; with either section
\* absent it writes nothing and raises no error.
C4_RelocateSection ==
  (last.op = "dynamic_linking" /\ LinkWellFormed) =>
    /\ PassAsPlanned(last.res.dyn, "rela_dyn", last.res.mem)
    /\ last.res.plt.kind # "notrun" =>
         PassAsPlanned(last.res.plt, "rela_plt", last.res.dyn.mem)

\* C4 witness: a pass skipped a NOTYPE entry and patched a later one
C4_Witness ==
  /\ last.op = "dynamic_linking"
  /\ LinkWellFormed
  /\ HasSection("rela_dyn") /\ HasSection("dynsym")
  /\ Len(truth.relaDyn) = 2
  /\ ~EntryPatched(truth.relaDyn[1])
  /\ EntryPatched(truth.relaDyn[2])
  /\ Len(last.res.dyn.writes) = 1
  /\ last.res.dyn.kind = "ok"

\* C5: dynamic_linking makes every write of .rela.dyn before any write of
\* .rela.plt, both against .dynsym, so after a linking without error every
\* target holds the value of the last entry that addresses it, .rela.plt
\* after .rela.dyn and later entries after earlier ones.
C5_DynBeforePlt ==
  (last.op = "dynamic_linking" /\ LinkWellFormed) =>
    /\ last.res.kind = "ok" =>
         LET ws == WritesOf(EntriesOf("rela_dyn"), Len(EntriesOf("rela_dyn")))
                   \o WritesOf(EntriesOf("rela_plt"), Len(EntriesOf("rela_plt")))
         IN /\ last.res.writes = ws
            /\ \A a \in Mapped : memory[a] = After(last.res.mem, ws, a)
    /\ last.res.plt.writes # <<>> =>
         /\ last.res.dyn.done = Len(EntriesOf("rela_dyn"))
         /\ last.res.writes = last.res.dyn.writes \o last.res.plt.writes

\* C5 witness: an OBJECT entry of .rela.dyn and a FUNC entry of .rela.plt
\* with different values met at one target
C5_Witness ==
  /\ last.op = "dynamic_linking"
  /\ LinkWellFormed
  /\ last.res.kind = "ok"
  /\ last.res.dyn.writes # <<>>
  /\ last.res.plt.writes # <<>>
  /\ last.res.dyn.writes[Len(last.res.dyn.writes)][1] = last.res.plt.writes[1][1]
  /\ last.res.dyn.writes[Len(last.res.dyn.writes)][2] # last.res.plt.writes[1][2]

\* C6: the guest is runnable only after both passes processed all their
\* entries without error; a failing lookup, address or write, also after
\* writes already made, aborts the load: no later entry and no second pass
\* is processed, and nothing runs after the abort.
C6_NoPartialSuccess ==
  /\ phase = "runnable" =>
       /\ last.op = "dynamic_linking" /\ last.res.kind = "ok"
       /\ last.res.dyn.kind = "ok" /\ last.res.plt.kind = "ok"
       /\ LinkWellFormed =>
            /\ last.res.dyn.done = Len(EntriesOf("rela_dyn"))
            /\ last.res.plt.done = Len(EntriesOf("rela_plt"))
  /\ (last.op = "dynamic_linking" /\ last.res.kind # "ok") =>
       /\ phase = "aborted"
       /\ last.res.dyn.kind # "ok" =>
            /\ last.res.plt.kind = "notrun"
            /\ last.res.writes = last.res.dyn.writes
            /\ memory = last.res.dyn.mem
       /\ LinkWellFormed =>
            LET kind == IF last.res.dyn.kind # "ok" THEN "rela_dyn" ELSE "rela_plt"
                pass == IF last.res.dyn.kind # "ok" THEN last.res.dyn ELSE last.res.plt
            IN /\ pass.done < Len(EntriesOf(kind))
               /\ pass.writes = WritesOf(EntriesOf(kind), pass.done)
  /\ phase = "aborted" => (last.op = "dynamic_linking" /\ last.res.kind # "ok")

\* C6 witness: the first pass failed after a write it had made
C6_Witness ==
  /\ phase = "aborted"
  /\ LinkWellFormed
  /\ last.res.dyn.kind = "InvalidProgram"
  /\ last.res.dyn.writes # <<>>
  /\ EntriesOf("rela_plt") # <<>>

====
